---- MODULE Spec2Model ----
(***************************************************************************)
(* A model of @eurusik/memoized: the deepEqual comparator, the cache cell  *)
(* created by createMemoizedMethod (previousArgs, calledOnce,              *)
(* cachedResult), the memoized decorator in its legacy and Stage 3 forms,  *)
(* the per-instance registry __memoizedClearFns and clearAllMemoized.      *)
(***************************************************************************)
EXTENDS Integers, Sequences, FiniteSets, TLC

VARIABLES
    decorators,        \* "legacy" or "stage3": the decorator form the build uses
    cells,             \* cells[c][key]: the closure state of one memoizedFn
    defined,           \* defined[o][key]: the instance holds fn as own property
    memoizedClearFns,  \* memoizedClearFns[o]: the instance's __memoizedClearFns
    computeCount,      \* computeCount[o][key]: runs of the original method
    promises,          \* promises[p]: a promise an async original method returned
    now,               \* Date.now()
    ttlCells,          \* ttlCells[key]: the closure state of one memoizedTTL method
    classDef,          \* classDef[m]: what memoized made of member m of the class
    accessor,          \* accessor[o][key]: the own property a memoized getter defined
    frames,            \* frames[n]: a call of memoizedFn whose original method is running
    last,              \* what the most recent call did and returned
    prev               \* the call before it

vars == <<decorators, cells, defined, memoizedClearFns, computeCount, promises,
          now, ttlCells, classDef, accessor, frames, last, prev>>

(***************************************************************************)
(* Values.  A JavaScript value is a primitive or a reference to an object  *)
(* of the heap; two references are identical (===) iff they name the same  *)
(* heap object.                                                            *)
(***************************************************************************)
Num(n) == [t |-> "number", v |-> n]
NaN == [t |-> "NaN", v |-> 0]
Str(s) == [t |-> "string", v |-> s]
Bool(b) == [t |-> "boolean", v |-> b]
Null == [t |-> "null", v |-> 0]
Undefined == [t |-> "undefined", v |-> 0]
Ref(id) == [t |-> "ref", v |-> id]

HeapObj(kind, keys, vals, n) == [kind |-> kind, keys |-> keys, vals |-> vals, n |-> n]

\* The objects the calls are made with.  1..7 are those of the test 'handles
\* complex objects as arguments': obj1 = {a: 1, b: {c: [1, 2, 3]}} (3), obj2
\* built separately with the same structure (6), and {...obj1, d: 4} (7), which
\* shares obj1's b.
Heap ==
    << HeapObj("Array",  <<>>, <<Num(1), Num(2), Num(3)>>, 0),
       HeapObj("Object", <<"c">>, <<Ref(1)>>, 0),
       HeapObj("Object", <<"a", "b">>, <<Num(1), Ref(2)>>, 0),
       HeapObj("Array",  <<>>, <<Num(1), Num(2), Num(3)>>, 0),
       HeapObj("Object", <<"c">>, <<Ref(4)>>, 0),
       HeapObj("Object", <<"a", "b">>, <<Num(1), Ref(5)>>, 0),
       HeapObj("Object", <<"a", "b", "d">>, <<Num(1), Ref(2), Num(4)>>, 0),
       \* 8..10: {x: undefined}, {y: 1}, {y: undefined}
       HeapObj("Object", <<"x">>, <<Undefined>>, 0),
       HeapObj("Object", <<"y">>, <<Num(1)>>, 0),
       HeapObj("Object", <<"y">>, <<Undefined>>, 0),
       \* 11..14: {k: 1} three times over, and {k: 2}
       HeapObj("Object", <<"k">>, <<Num(1)>>, 0),
       HeapObj("Object", <<"k">>, <<Num(1)>>, 0),
       HeapObj("Object", <<"k">>, <<Num(1)>>, 0),
       HeapObj("Object", <<"k">>, <<Num(2)>>, 0),
       \* 15, 16: new Set([{k: 1}, {k: 1}]), new Set([{k: 1}, {k: 2}])
       HeapObj("Set", <<>>, <<Ref(11), Ref(12)>>, 0),
       HeapObj("Set", <<>>, <<Ref(13), Ref(14)>>, 0),
       \* 17..19: new Set([1, 2, 3]), new Set([3, 1, 2]), new Set([1, 2, 4])
       HeapObj("Set", <<>>, <<Num(1), Num(2), Num(3)>>, 0),
       HeapObj("Set", <<>>, <<Num(3), Num(1), Num(2)>>, 0),
       HeapObj("Set", <<>>, <<Num(1), Num(2), Num(4)>>, 0),
       \* 20..22: date1, date2 (the same instant), date3; n is getTime()
       HeapObj("Date", <<>>, <<>>, 1),
       HeapObj("Date", <<>>, <<>>, 1),
       HeapObj("Date", <<>>, <<>>, 2),
       \* 23, 24: two RegExp of the same pattern; n stands for toString()
       HeapObj("RegExp", <<>>, <<>>, 1),
       HeapObj("RegExp", <<>>, <<>>, 1),
       \* 25..27: map1, map2, map3
       HeapObj("Map", <<Str("a"), Str("b")>>, <<Num(1), Num(2)>>, 0),
       HeapObj("Map", <<Str("a"), Str("b")>>, <<Num(1), Num(2)>>, 0),
       HeapObj("Map", <<Str("a"), Str("b")>>, <<Num(1), Num(3)>>, 0),
       \* 28..31: instances of classes with an equals method, of id 1, 1, 2 and
       \* 1; n tells what equals does with its argument (see CustomEqualsThrows)
       HeapObj("Custom", <<"id">>, <<Num(1)>>, 0),
       HeapObj("Custom", <<"id">>, <<Num(1)>>, 0),
       HeapObj("Custom", <<"id">>, <<Num(2)>>, 0),
       HeapObj("Custom", <<"id">>, <<Num(1)>>, 1),
       \* 32, 33: two objects that each hold themselves: o.self = o
       HeapObj("Object", <<"self">>, <<Ref(32)>>, 0),
       HeapObj("Object", <<"self">>, <<Ref(33)>>, 0),
       \* 34: a function
       HeapObj("Function", <<>>, <<>>, 0),
       \* 35..41: [1, 2, 4], [1, 2], [null, undefined] twice, [NaN], [] twice
       HeapObj("Array", <<>>, <<Num(1), Num(2), Num(4)>>, 0),
       HeapObj("Array", <<>>, <<Num(1), Num(2)>>, 0),
       HeapObj("Array", <<>>, <<Null, Undefined>>, 0),
       HeapObj("Array", <<>>, <<Null, Undefined>>, 0),
       HeapObj("Array", <<>>, <<NaN>>, 0),
       HeapObj("Array", <<>>, <<>>, 0),
       HeapObj("Array", <<>>, <<>>, 0),
       \* 42: {toString: undefined}
       HeapObj("Object", <<"toString">>, <<Undefined>>, 0),
       \* 43: Object.prototype, the prototype of every plain object, and
       \* 44..54: the functions it holds
       HeapObj("Prototype",
               <<"constructor", "toString", "toLocaleString", "valueOf",
                 "hasOwnProperty", "isPrototypeOf", "propertyIsEnumerable",
                 "__defineGetter__", "__defineSetter__", "__lookupGetter__",
                 "__lookupSetter__">>,
               <<Ref(44), Ref(45), Ref(46), Ref(47), Ref(48), Ref(49), Ref(50),
                 Ref(51), Ref(52), Ref(53), Ref(54)>>, 0),
       HeapObj("Function", <<>>, <<>>, 0),
       HeapObj("Function", <<>>, <<>>, 0),
       HeapObj("Function", <<>>, <<>>, 0),
       HeapObj("Function", <<>>, <<>>, 0),
       HeapObj("Function", <<>>, <<>>, 0),
       HeapObj("Function", <<>>, <<>>, 0),
       HeapObj("Function", <<>>, <<>>, 0),
       HeapObj("Function", <<>>, <<>>, 0),
       HeapObj("Function", <<>>, <<>>, 0),
       HeapObj("Function", <<>>, <<>>, 0),
       HeapObj("Function", <<>>, <<>>, 0) >>

Obj(a) == Heap[a.v]

\* typeof a
Typeof(a) ==
    CASE a.t = "number" -> "number"
      [] a.t = "NaN" -> "number"
      [] a.t = "string" -> "string"
      [] a.t = "boolean" -> "boolean"
      [] a.t = "undefined" -> "undefined"
      [] a.t = "null" -> "object"
      [] a.t = "ref" -> IF Obj(a).kind = "Function" THEN "function" ELSE "object"
      [] OTHER -> "object"

\* a === b
StrictEquals(a, b) == a.t # "NaN" /\ a = b

\* a == null
IsNullish(a) == a.t = "null" \/ a.t = "undefined"

\* typeof item !== 'object' && typeof item !== 'function', or null / undefined
IsPrimitive(a) == IsNullish(a) \/ (Typeof(a) # "object" /\ Typeof(a) # "function")

\* Whether the object itself holds the key, and the value it holds under it.
HasOwn(h, key) == \E i \in 1..Len(h.keys) : h.keys[i] = key

OwnField(h, key) ==
    IF HasOwn(h, key)
    THEN h.vals[CHOOSE i \in 1..Len(h.keys) : h.keys[i] = key]
    ELSE Undefined

\* Object.prototype
ObjectPrototype == Ref(43)

\* obj[key] of a plain object: the object's own field, else what the read
\* finds on Object.prototype (__proto__ reads the prototype itself), else
\* undefined.
GetField(h, key) ==
    IF HasOwn(h, key) THEN OwnField(h, key)
    ELSE IF h.kind # "Object" THEN Undefined
    ELSE IF key = "__proto__" THEN ObjectPrototype
    ELSE OwnField(Obj(ObjectPrototype), key)

\* map.has(key): SameValueZero, under which NaN is found
MapHas(h, key) == \E i \in 1..Len(h.keys) : h.keys[i] = key

\* map.get(key)
MapGet(h, key) == OwnField(h, key)

\* a.equals(b) of an object that carries an equals method: the method compares
\* the first field of the two objects
CustomEquals(a, b) ==
    /\ Obj(b).kind = "Custom"
    /\ Len(Obj(a).vals) > 0 /\ Len(Obj(b).vals) > 0
    /\ StrictEquals(Obj(a).vals[1], Obj(b).vals[1])

\* Whether a.equals(b) throws.  The equals of an object with n = 1 reads a
\* field of a field of its argument (this.pos.x === other.pos.x), which is a
\* TypeError when the argument is not of its class; that of an object with
\* n = 0 reads fields of its argument only.
CustomEqualsThrows(a, b) == Obj(a).n = 1 /\ Obj(b).kind # "Custom"

DefaultDepth == 100

deepEqualByReference(a, b, depth) == depth > 0 /\ StrictEquals(a, b)

deepEqualExhaustedIsEqual(a, b, depth) == depth <= 0 \/ StrictEquals(a, b)

deepEqualArraysByLength(a, b, depth) ==
    /\ depth > 0
    /\ \/ StrictEquals(a, b)
       \/ /\ a.t = "ref" /\ b.t = "ref"
          /\ Obj(a).kind = "Array" /\ Obj(b).kind = "Array"
          /\ Len(Obj(a).vals) = Len(Obj(b).vals)

deepEqualIdentityBeforeGuard(a, b, depth) == StrictEquals(a, b)

RECURSIVE deepEqual(_, _, _)
deepEqual(a, b, depth) ==
    IF depth <= 0 THEN FALSE
    ELSE IF StrictEquals(a, b) THEN TRUE
    ELSE IF IsNullish(a) \/ IsNullish(b) THEN FALSE
    ELSE IF Typeof(a) # Typeof(b) THEN FALSE
    ELSE IF Typeof(a) # "object" /\ Typeof(a) # "function" THEN FALSE
    ELSE LET ha == Obj(a)
             hb == Obj(b)
         IN  IF ha.kind = "Date" /\ hb.kind = "Date"
                 THEN ha.n = hb.n
             ELSE IF ha.kind = "RegExp" /\ hb.kind = "RegExp"
                 THEN ha.n = hb.n
             ELSE IF ha.kind = "Array" /\ hb.kind = "Array"
                 THEN IF Len(ha.vals) # Len(hb.vals) THEN FALSE
                      ELSE IF \A i \in 1..Len(ha.vals) : IsPrimitive(ha.vals[i])
                          THEN \A i \in 1..Len(ha.vals) :
                                   StrictEquals(ha.vals[i], hb.vals[i])
                          ELSE \A i \in 1..Len(ha.vals) :
                                   deepEqual(ha.vals[i], hb.vals[i], depth - 1)
             ELSE IF ha.kind = "Map" /\ hb.kind = "Map"
                 THEN IF Len(ha.keys) # Len(hb.keys) THEN FALSE
                      ELSE \A i \in 1..Len(ha.keys) :
                               /\ MapHas(hb, ha.keys[i])
                               /\ deepEqual(ha.vals[i], MapGet(hb, ha.keys[i]), depth - 1)
             ELSE IF ha.kind = "Set" /\ hb.kind = "Set"
                 THEN IF Len(ha.vals) # Len(hb.vals) THEN FALSE
                      ELSE \A i \in 1..Len(ha.vals) :
                               \E j \in 1..Len(hb.vals) :
                                   deepEqual(ha.vals[i], hb.vals[j], depth - 1)
             ELSE IF ha.kind = "Object" /\ hb.kind = "Object"
                 THEN IF Len(ha.keys) # Len(hb.keys) THEN FALSE
                      ELSE \A i \in 1..Len(ha.keys) :
                               deepEqual(ha.vals[i], GetField(hb, ha.keys[i]), depth - 1)
             ELSE IF ha.kind = "Custom"
                 THEN CustomEquals(a, b)
             ELSE FALSE

MaxOf(S) == CHOOSE m \in S : \A x \in S : x <= m

\* What one call of deepEqual does besides returning: whether it throws, and
\* how many calls deep it goes (levels, the calls stopped by the depth guard
\* not counted).  The recursive calls are those the code makes: every() stops
\* at the first call that returns false, some() at the first that returns
\* true, and a call that throws ends everything.
RECURSIVE deepEqualTrace(_, _, _)
deepEqualTrace(a, b, depth) ==
    LET Leaf == [threw |-> FALSE, levels |-> 1]
        Sub(x, y) == deepEqualTrace(x, y, depth - 1)
        True(x, y) == ~Sub(x, y).threw /\ deepEqual(x, y, depth - 1)
        False(x, y) == ~Sub(x, y).threw /\ ~deepEqual(x, y, depth - 1)
        Join(calls) == [threw |-> \E c \in calls : c.threw,
                        levels |-> 1 + MaxOf({0} \cup {c.levels : c \in calls})]
    IN  IF depth <= 0 THEN [threw |-> FALSE, levels |-> 0]
        ELSE IF StrictEquals(a, b) THEN Leaf
        ELSE IF IsNullish(a) \/ IsNullish(b) THEN Leaf
        ELSE IF Typeof(a) # Typeof(b) THEN Leaf
        ELSE IF Typeof(a) # "object" /\ Typeof(a) # "function" THEN Leaf
        ELSE LET ha == Obj(a)
                 hb == Obj(b)
                 n == Len(ha.vals)
             IN  IF ha.kind = "Date" /\ hb.kind = "Date" THEN Leaf
                 ELSE IF ha.kind = "RegExp" /\ hb.kind = "RegExp" THEN Leaf
                 ELSE IF ha.kind = "Array" /\ hb.kind = "Array"
                     THEN IF n # Len(hb.vals) THEN Leaf
                          ELSE IF \A i \in 1..n : IsPrimitive(ha.vals[i]) THEN Leaf
                          ELSE Join({ Sub(ha.vals[i], hb.vals[i]) :
                                      i \in { i \in 1..n : \A j \in 1..(i - 1) :
                                                 True(ha.vals[j], hb.vals[j]) } })
                 ELSE IF ha.kind = "Map" /\ hb.kind = "Map"
                     THEN IF Len(ha.keys) # Len(hb.keys) THEN Leaf
                          ELSE Join({ Sub(ha.vals[i], MapGet(hb, ha.keys[i])) :
                                      i \in { i \in 1..n :
                                                 /\ MapHas(hb, ha.keys[i])
                                                 /\ \A j \in 1..(i - 1) :
                                                        /\ MapHas(hb, ha.keys[j])
                                                        /\ True(ha.vals[j],
                                                                MapGet(hb, ha.keys[j])) } })
                 ELSE IF ha.kind = "Set" /\ hb.kind = "Set"
                     THEN IF n # Len(hb.vals) THEN Leaf
                          ELSE LET Tried(i, j) == \A k \in 1..(j - 1) :
                                                      False(ha.vals[i], hb.vals[k])
                                   Found(i) == \E j \in 1..n :
                                                   /\ Tried(i, j)
                                                   /\ True(ha.vals[i], hb.vals[j])
                               IN  Join({ Sub(ha.vals[p[1]], hb.vals[p[2]]) :
                                          p \in { p \in (1..n) \X (1..n) :
                                                     /\ \A i \in 1..(p[1] - 1) : Found(i)
                                                     /\ Tried(p[1], p[2]) } })
                 ELSE IF ha.kind = "Object" /\ hb.kind = "Object"
                     THEN IF Len(ha.keys) # Len(hb.keys) THEN Leaf
                          ELSE Join({ Sub(ha.vals[i], GetField(hb, ha.keys[i])) :
                                      i \in { i \in 1..n : \A j \in 1..(i - 1) :
                                                 True(ha.vals[j],
                                                      GetField(hb, ha.keys[j])) } })
                 ELSE IF ha.kind = "Custom"
                     THEN [threw |-> CustomEqualsThrows(a, b), levels |-> 1]
                 ELSE Leaf

\* Whether deepEqual(a, b, depth) throws: it does when it reaches an equals
\* method that throws.  every() reaches a position when all positions before
\* it compared equal, some() when none before it did.
RECURSIVE deepEqualThrows(_, _, _)
deepEqualThrows(a, b, depth) ==
    IF depth <= 0 \/ StrictEquals(a, b) \/ IsNullish(a) \/ IsNullish(b) THEN FALSE
    ELSE IF Typeof(a) # Typeof(b) THEN FALSE
    ELSE IF Typeof(a) # "object" /\ Typeof(a) # "function" THEN FALSE
    ELSE IF Obj(a).kind = "Array" /\ Obj(b).kind = "Array"
        THEN /\ Len(Obj(a).vals) = Len(Obj(b).vals)
             /\ \E i \in 1..Len(Obj(a).vals) : ~IsPrimitive(Obj(a).vals[i])
             /\ \E i \in 1..Len(Obj(a).vals) :
                    /\ deepEqualThrows(Obj(a).vals[i], Obj(b).vals[i], depth - 1)
                    /\ \A j \in 1..(i - 1) :
                           deepEqual(Obj(a).vals[j], Obj(b).vals[j], depth - 1)
    ELSE IF Obj(a).kind = "Map" /\ Obj(b).kind = "Map"
        THEN /\ Len(Obj(a).keys) = Len(Obj(b).keys)
             /\ \E i \in 1..Len(Obj(a).keys) :
                    /\ MapHas(Obj(b), Obj(a).keys[i])
                    /\ deepEqualThrows(Obj(a).vals[i], MapGet(Obj(b), Obj(a).keys[i]),
                                       depth - 1)
                    /\ \A j \in 1..(i - 1) :
                           /\ MapHas(Obj(b), Obj(a).keys[j])
                           /\ deepEqual(Obj(a).vals[j], MapGet(Obj(b), Obj(a).keys[j]),
                                        depth - 1)
    ELSE IF Obj(a).kind = "Set" /\ Obj(b).kind = "Set"
        THEN /\ Len(Obj(a).vals) = Len(Obj(b).vals)
             /\ \E i \in 1..Len(Obj(a).vals), j \in 1..Len(Obj(b).vals) :
                    /\ deepEqualThrows(Obj(a).vals[i], Obj(b).vals[j], depth - 1)
                    /\ \A k \in 1..(j - 1) :
                           ~deepEqual(Obj(a).vals[i], Obj(b).vals[k], depth - 1)
                    /\ \A h \in 1..(i - 1) : \E k \in 1..Len(Obj(b).vals) :
                           deepEqual(Obj(a).vals[h], Obj(b).vals[k], depth - 1)
    ELSE IF Obj(a).kind = "Object" /\ Obj(b).kind = "Object"
        THEN /\ Len(Obj(a).keys) = Len(Obj(b).keys)
             /\ \E i \in 1..Len(Obj(a).keys) :
                    /\ deepEqualThrows(Obj(a).vals[i],
                                       GetField(Obj(b), Obj(a).keys[i]), depth - 1)
                    /\ \A j \in 1..(i - 1) :
                           deepEqual(Obj(a).vals[j],
                                     GetField(Obj(b), Obj(a).keys[j]), depth - 1)
    ELSE Obj(a).kind = "Custom" /\ CustomEqualsThrows(a, b)

(***************************************************************************)
(* The cache cell: the closure variables of createMemoizedMethod.          *)
(***************************************************************************)
Owners == {"o1", "o2"}
Keys == {"method1", "method2"}
\* A cell lives in a closure: one per instance and key when the legacy getter
\* creates it, one per key (on the prototype) under Stage 3 decorators, and
\* the one a direct call of createMemoizedMethod creates, which no property
\* of the instance holds.
Closures == Owners \cup {"prototype", "detached"}

MaxCompute == 3

\* let previousArgs = []; let calledOnce = false; let cachedResult;
NewCell == [previousArgs |-> <<>>, calledOnce |-> FALSE, cachedResult |-> Undefined]

\* What originalMethod.apply(this, args) does when it is run: it returns a
\* value or it throws.
Returns(value) == [threw |-> FALSE, value |-> value]
Thrown == [t |-> "error", v |-> 0]
Throws == [threw |-> TRUE, value |-> Thrown]

\* The value a synchronous original method returns: it tells the instance, the
\* method and the argument list it was computed from.
OriginalMethod(this, key, args) == [t |-> "result", v |-> <<this, key, args>>]

\* What evaluating isSame does: it throws, or it has a value.
Same(value) == [threw |-> FALSE, value |-> value]
SameThrows == [threw |-> TRUE, value |-> FALSE]

isSameIndexAsDepth(cell, args) ==
    Same(/\ cell.calledOnce
         /\ Len(cell.previousArgs) = Len(args)
         /\ \A i \in 1..Len(args) : deepEqual(args[i], cell.previousArgs[i], i - 1))

isSameNoLength(cell, args) ==
    Same(/\ cell.calledOnce
         /\ \A i \in 1..Len(args) :
                deepEqual(args[i],
                          IF i <= Len(cell.previousArgs) THEN cell.previousArgs[i]
                          ELSE Undefined,
                          DefaultDepth))

isSameByResult(cell, args) ==
    Same(/\ cell.cachedResult # Undefined
         /\ Len(cell.previousArgs) = Len(args)
         /\ \A i \in 1..Len(args) : deepEqual(args[i], cell.previousArgs[i], DefaultDepth))

\* calledOnce && previousArgs.length === args.length &&
\* args.every((arg, i) => deepEqual(arg, previousArgs[i])).  every() compares
\* position by position and stops at the first comparison that returns false
\* or throws; a comparison that throws makes the whole evaluation throw.
isSame(cell, args) ==
    IF ~cell.calledOnce \/ Len(cell.previousArgs) # Len(args) THEN Same(FALSE)
    ELSE IF \E i \in 1..Len(args) :
                /\ deepEqualThrows(args[i], cell.previousArgs[i], DefaultDepth)
                /\ \A j \in 1..(i - 1) :
                       deepEqual(args[j], cell.previousArgs[j], DefaultDepth)
        THEN SameThrows
    ELSE Same(\A i \in 1..Len(args) :
                  deepEqual(args[i], cell.previousArgs[i], DefaultDepth))

StoreArgsAndFlag(cell, args) == [cell EXCEPT !.previousArgs = args, !.calledOnce = TRUE]

\* The cell once previousArgs = [...args] has run.
StoreArgs(cell, args) == [cell EXCEPT !.previousArgs = args]

\* The cell once cachedResult = ...; calledOnce = true have run.
StoreResult(cell, result) == [cell EXCEPT !.cachedResult = result, !.calledOnce = TRUE]

memoizedFnNoHit(cell, args, ret) ==
    IF ret.threw
    THEN [cell |-> StoreArgs(cell, args), computed |-> TRUE, threw |-> TRUE,
          result |-> ret.value]
    ELSE [cell |-> StoreResult(StoreArgs(cell, args), ret.value),
          computed |-> TRUE, threw |-> FALSE, result |-> ret.value]

\* One call of memoizedFn on a cell; ret is what the original method does if
\* it is run.  When the comparison of the arguments throws, the call ends
\* there: nothing is stored and the original method is not run.  Yields the cell afterwards, whether the original method ran,
\* whether the call threw, and what the caller got.
memoizedFn(cell, args, ret) ==
    LET Call(same) ==
            IF same.threw
            THEN [cell |-> cell, computed |-> FALSE, threw |-> TRUE,
                  result |-> Thrown]
            ELSE IF same.value
            THEN [cell |-> cell, computed |-> FALSE, threw |-> FALSE,
                  result |-> cell.cachedResult]
            ELSE IF ret.threw
            THEN [cell |-> StoreArgs(cell, args), computed |-> TRUE,
                  threw |-> TRUE, result |-> ret.value]
            ELSE [cell |-> StoreResult(StoreArgs(cell, args), ret.value),
                  computed |-> TRUE, threw |-> FALSE, result |-> ret.value]
    IN  Call(isSame(cell, args))

clearMemoKeepsResult(cell) ==
    [cell EXCEPT !.previousArgs = <<>>, !.calledOnce = FALSE]

clearMemoKeepsFlag(cell) ==
    [cell EXCEPT !.previousArgs = <<>>, !.cachedResult = Undefined]

clearMemoFlipsFlag(cell) ==
    [cell EXCEPT !.previousArgs = <<>>, !.cachedResult = Undefined,
                 !.calledOnce = ~cell.calledOnce]

clearMemo(cell) ==
    [cell EXCEPT !.previousArgs = <<>>, !.cachedResult = Undefined, !.calledOnce = FALSE]

(***************************************************************************)
(* The decorator and the registry.                                         *)
(***************************************************************************)
\* The closure that serves instance o: memoized() under Stage 3 wraps the
\* method once, at class definition; the legacy getter wraps it per instance.
ClosureOf(o) == IF decorators = "stage3" THEN "prototype" ELSE o

\* Whether reading o[key] runs the legacy getter of the prototype (the
\* instance has no own property yet).
RunsGetter(o, key) == decorators = "legacy" /\ ~defined[o][key]

\* instance.__memoizedClearFns[key] = memoizedFn.clearMemo, the registry being
\* created when the instance has none.  An entry names the closure it clears.
RegisterAlone(fns, key, closure) ==
    [present |-> TRUE, entries |-> {<<key, closure>>}]

Register(fns, key, closure) ==
    [present |-> TRUE,
     entries |-> {e \in fns.entries : e[1] # key} \cup {<<key, closure>>}]

NoRegistry == [present |-> FALSE, entries |-> {}]

\* Reading o[key]: the legacy getter creates the cell, registers its clearMemo
\* on the instance and defines fn as the instance's own property.
CellsAfterGet(o, key) ==
    IF RunsGetter(o, key) THEN [cells EXCEPT ![o][key] = NewCell] ELSE cells

ClearFnsAfterGet(o, key) ==
    IF RunsGetter(o, key)
    THEN [memoizedClearFns EXCEPT ![o] = Register(memoizedClearFns[o], key, o)]
    ELSE memoizedClearFns

DefinedAfterGet(o, key) ==
    IF RunsGetter(o, key) THEN [defined EXCEPT ![o][key] = TRUE] ELSE defined

\* The members of the class that carry @memoized: a method and the getter of
\* the test 'memoizes getters with legacy decorator'.
AccessorKeys == {"expensiveComputation"}
Members == {"method1"} \cup AccessorKeys

\* What the decorator is handed for a member declared as a given kind.  Under
\* Stage 3 decorators: the method, getter or setter function (undefined for a
\* field, a {get, set} object for an auto-accessor) and a context with its
\* kind.  Under legacy decorators: the prototype, the property key (a string,
\* which has no kind) and the property descriptor (none for a field; no get
\* and no value for a lone setter; a number for a data property).
NoDescriptor == [present |-> FALSE, get |-> FALSE, value |-> "undefined"]
Descriptor(get, value) == [present |-> TRUE, get |-> get, value |-> value]

Site(form, declared) ==
    IF form = "stage3"
    THEN [target |-> CASE declared \in {"method", "getter", "setter"} -> "function"
                       [] declared = "field" -> "undefined"
                       [] OTHER -> "object",
          kind |-> declared,
          descriptor |-> NoDescriptor]
    ELSE [target |-> "object",
          kind |-> "undefined",
          descriptor |-> CASE declared = "method" -> Descriptor(FALSE, "function")
                           [] declared = "getter" -> Descriptor(TRUE, "undefined")
                           [] declared = "setter" -> Descriptor(FALSE, "undefined")
                           [] declared = "data" -> Descriptor(FALSE, "number")
                           [] OTHER -> NoDescriptor]

\* The kinds a member can be declared as under each decorator form.
DeclaredKinds(form) ==
    IF form = "stage3"
    THEN {"method", "getter", "setter", "field", "accessor"}
    ELSE {"method", "getter", "setter", "field", "data"}

\* What memoized(...) does at class definition: it returns a wrapper (cell
\* tells whether createMemoizedMethod has run already) or it throws.
Wrapped(wrapper, cell) ==
    [threw |-> FALSE, error |-> "none", wrapper |-> wrapper, cell |-> cell]
Fails(error) ==
    [threw |-> TRUE, error |-> error, wrapper |-> "failed", cell |-> FALSE]

memoizedUnchecked(site) ==
    IF site.target = "function"
    THEN IF site.kind = "getter" THEN Wrapped("getter", FALSE)
         ELSE Wrapped("method", TRUE)
    ELSE IF ~site.descriptor.present THEN Fails("TypeError")
    ELSE IF site.descriptor.get THEN Wrapped("getter", FALSE)
    ELSE Wrapped("method", FALSE)

memoized(site) ==
    IF site.target = "function"
    THEN IF site.kind = "getter" THEN Wrapped("getter", FALSE)
         ELSE IF site.kind = "method" THEN Wrapped("method", TRUE)
         ELSE Fails("Error")
    ELSE IF ~site.descriptor.present THEN Fails("TypeError")
    ELSE IF site.descriptor.get THEN Wrapped("getter", FALSE)
    ELSE IF site.descriptor.value # "function" THEN Fails("Error")
    ELSE Wrapped("method", FALSE)

Undecorated == [declared |-> "none", wrapper |-> "none", cell |-> FALSE]

\* The class with its method declared a method and its getter a getter.
DecoratedClass(form) ==
    [m \in Members |->
        LET declared == IF m \in AccessorKeys THEN "getter" ELSE "method"
            r == memoized(Site(form, declared))
        IN  [declared |-> declared, wrapper |-> r.wrapper, cell |-> r.cell]]

\* The class definition has run to its end: every decorator returned.
ClassDefined == \A m \in Members : classDef[m].wrapper \in {"getter", "method"}

\* The own property of an instance that has not read its getter yet.
NoAccessor == [defined |-> FALSE, value |-> Undefined, runs |-> 0]

memoizedGetterNoDefine(acc, ret) ==
    IF acc.defined
    THEN [acc |-> acc, computed |-> FALSE, threw |-> FALSE, result |-> acc.value]
    ELSE [acc |-> [acc EXCEPT !.runs = @ + 1], computed |-> TRUE,
          threw |-> ret.threw, result |-> ret.value]

\* One read of o[key] for a memoized getter; ret is what the original getter
\* does if it is run.  With the own property defined the read yields its
\* value; otherwise memoizedGetter runs the original getter and, if that
\* returns, defines the own property with the value.
memoizedGetter(acc, ret) ==
    IF acc.defined
    THEN [acc |-> acc, computed |-> FALSE, threw |-> FALSE, result |-> acc.value]
    ELSE IF ret.threw
    THEN [acc |-> [acc EXCEPT !.runs = @ + 1], computed |-> TRUE,
          threw |-> TRUE, result |-> ret.value]
    ELSE [acc |-> [defined |-> TRUE, value |-> ret.value, runs |-> acc.runs + 1],
          computed |-> TRUE, threw |-> FALSE, result |-> ret.value]

TotalCompute ==
    LET RECURSIVE Sum(_)
        Sum(S) == IF S = {} THEN 0
                  ELSE LET p == CHOOSE q \in S : TRUE
                       IN  computeCount[p[1]][p[2]] + Sum(S \ {p})
    IN  Sum(Owners \X Keys)

(***************************************************************************)
(* The time-bounded cell of memoizedTTL(ttl): previousArgs, calledOnce and *)
(* cachedResult as above, and the time of the last computation.            *)
(***************************************************************************)
TtlKeys == {"zeroCache", "shortCache", "longCache",
            "fetchUserData", "fetchProductData"}

ShortTtl == 2
LongTtl == 4
MaxTime == 6

\* The ttl each method is decorated with: 0, 50 and 200 ms in the tests,
\* 5000 and 10000 ms in the example, the second twice the first.
TtlMillis(key) ==
    CASE key = "zeroCache" -> 0
      [] key = "shortCache" -> ShortTtl
      [] key = "longCache" -> LongTtl
      [] key = "fetchUserData" -> ShortTtl
      [] key = "fetchProductData" -> LongTtl

NoTime == [set |-> FALSE, at |-> 0]
At(time) == [set |-> TRUE, at |-> time]

NewTtlCell == [previousArgs |-> <<>>, calledOnce |-> FALSE,
               cachedResult |-> Undefined, computedAt |-> NoTime]

ttlIsFreshInclusive(cell, ttl, time) == time - cell.computedAt.at <= ttl

\* elapsed < ttlMillis
ttlIsFresh(cell, ttl, time) == time - cell.computedAt.at < ttl

ttlHitSlides(cell, time) == [cell EXCEPT !.computedAt = At(time)]

\* What a hit does to the cell: nothing.
ttlHit(cell, time) == cell

\* One call of a memoizedTTL method at the given time.
memoizedTtlFn(cell, args, ret, ttl, time) ==
    IF isSame(cell, args).value /\ ttlIsFresh(cell, ttl, time)
    THEN [cell |-> ttlHit(cell, time), computed |-> FALSE, threw |-> FALSE,
          result |-> cell.cachedResult]
    ELSE [cell |-> [previousArgs |-> args, calledOnce |-> TRUE,
                    cachedResult |-> ret.value, computedAt |-> At(time)],
          computed |-> TRUE, threw |-> FALSE, result |-> ret.value]

clearMemoTtl(cell) == NewTtlCell

(***************************************************************************)
(* Promises: what an async original method returns.                        *)
(***************************************************************************)
Promise(id) == [t |-> "promise", v |-> id]

(***************************************************************************)
(* The calls.                                                              *)
(***************************************************************************)
NoCall == [op |-> "none", owner |-> "o1", key |-> "method1", args |-> <<>>,
           computed |-> FALSE, threw |-> FALSE, result |-> Undefined,
           before |-> NewCell]

InitCells ==
    /\ cells = [c \in Closures |-> [k \in Keys |-> NewCell]]
    /\ defined = [o \in Owners |-> [k \in Keys |-> FALSE]]
    /\ memoizedClearFns = [o \in Owners |-> NoRegistry]
    /\ computeCount = [o \in Owners |-> [k \in Keys |-> 0]]
    /\ promises = <<>>
    /\ now = 0
    /\ ttlCells = [k \in TtlKeys |-> NewTtlCell]
    /\ accessor = [o \in Owners |-> [k \in AccessorKeys |-> NoAccessor]]
    /\ frames = <<>>

Init ==
    /\ decorators \in {"legacy", "stage3"}
    /\ InitCells
    /\ classDef = DecoratedClass(decorators)
    /\ last = NoCall
    /\ prev = NoCall

\* o[key](...args), the original method doing ret if it is run
Invoke(o, key, args, ret) ==
    LET c == ClosureOf(o)
        got == CellsAfterGet(o, key)
    IN  \E r \in {memoizedFn(got[c][key], args, ret)} :
        /\ r.computed => TotalCompute < MaxCompute
        /\ cells' = [got EXCEPT ![c][key] = r.cell]
        /\ defined' = DefinedAfterGet(o, key)
        /\ memoizedClearFns' = ClearFnsAfterGet(o, key)
        /\ computeCount' = IF r.computed
                           THEN [computeCount EXCEPT ![o][key] = @ + 1]
                           ELSE computeCount
        /\ last' = [op |-> "invoke", owner |-> o, key |-> key, args |-> args,
                    computed |-> r.computed, threw |-> r.threw,
                    result |-> r.result, before |-> got[c][key]]
        /\ prev' = last
        /\ UNCHANGED <<decorators, now, ttlCells, classDef, accessor, frames>>

\* o[key].clearMemo()
ClearMemo(o, key) ==
    LET c == ClosureOf(o)
        got == CellsAfterGet(o, key)
    IN  /\ cells' = [got EXCEPT ![c][key] = clearMemo(got[c][key])]
        /\ defined' = DefinedAfterGet(o, key)
        /\ memoizedClearFns' = ClearFnsAfterGet(o, key)
        /\ last' = [op |-> "clearMemo", owner |-> o, key |-> key, args |-> <<>>,
                    computed |-> FALSE, threw |-> FALSE, result |-> Undefined,
                    before |-> got[c][key]]
        /\ prev' = last
        /\ UNCHANGED <<decorators, computeCount, promises, now, ttlCells,
                       classDef, accessor, frames>>

\* Object.values(instance.__memoizedClearFns).forEach(clearFn => clearFn())
clearAllMemoized(cs, fns) ==
    IF fns.present
    THEN [c \in Closures |-> [k \in Keys |->
             IF <<k, c>> \in fns.entries THEN clearMemo(cs[c][k]) ELSE cs[c][k]]]
    ELSE cs

\* clearAllMemoized(o)
ClearAll(o) ==
    /\ cells' = clearAllMemoized(cells, memoizedClearFns[o])
    /\ last' = [op |-> "clearAllMemoized", owner |-> o, key |-> "method1",
                args |-> <<>>, computed |-> FALSE, threw |-> FALSE,
                result |-> Undefined, before |-> NewCell]
    /\ prev' = last
    /\ UNCHANGED <<decorators, defined, memoizedClearFns, computeCount,
                   promises, now, ttlCells, classDef, accessor, frames>>

\* createMemoizedMethod(originalMethod, key, o) called directly with an
\* instance: a new closure is created and its clearMemo is written over the
\* instance's registry entry of that key.  The function the call returns is
\* held by the caller; the methods of the instance keep their own closures.
CreateMemoizedMethod(o, key) ==
    /\ cells' = [cells EXCEPT !["detached"][key] = NewCell]
    /\ memoizedClearFns' = [memoizedClearFns EXCEPT
                                ![o] = Register(@, key, "detached")]
    /\ last' = [op |-> "createMemoizedMethod", owner |-> o, key |-> key,
                args |-> <<>>, computed |-> FALSE, threw |-> FALSE,
                result |-> Undefined, before |-> NewCell]
    /\ prev' = last
    /\ UNCHANGED <<decorators, defined, computeCount, promises, now, ttlCells,
                   classDef, accessor, frames>>

\* f.call(o, ...args), f being the function the direct call returned and
\* originalMethod the method of the instance, doing ret if it is run
CallMemoizedFn(o, key, args, ret) ==
    \E r \in {memoizedFn(cells["detached"][key], args, ret)} :
        /\ r.computed => TotalCompute < MaxCompute
        /\ cells' = [cells EXCEPT !["detached"][key] = r.cell]
        /\ computeCount' = IF r.computed
                           THEN [computeCount EXCEPT ![o][key] = @ + 1]
                           ELSE computeCount
        /\ last' = [op |-> "memoizedFn", owner |-> o, key |-> key, args |-> args,
                    computed |-> r.computed, threw |-> r.threw,
                    result |-> r.result, before |-> cells["detached"][key]]
        /\ prev' = last
        /\ UNCHANGED <<decorators, defined, memoizedClearFns, now, ttlCells,
                       classDef, accessor, frames>>

\* f.clearMemo()
CallClearMemo(o, key) ==
    /\ cells' = [cells EXCEPT !["detached"][key] = clearMemo(@)]
    /\ last' = [op |-> "memoizedFn.clearMemo", owner |-> o, key |-> key,
                args |-> <<>>, computed |-> FALSE, threw |-> FALSE,
                result |-> Undefined, before |-> cells["detached"][key]]
    /\ prev' = last
    /\ UNCHANGED <<decorators, defined, memoizedClearFns, computeCount, promises,
                   now, ttlCells, classDef, accessor, frames>>

(***************************************************************************)
(* SpecCell: one memoized method of one instance, called with every        *)
(* argument list of CellArgs, the original method returning or throwing.   *)
(***************************************************************************)
Obj1 == Ref(3)
Obj2 == Ref(6)
Obj1PlusD == Ref(7)

\* An object whose equals method throws when its argument is not of its class.
StrictCustom == Ref(31)

CellArgs ==
    { <<>>, <<Undefined>>, <<Num(1)>>, <<Num(1), Num(2)>>, <<Num(2), Num(3)>>,
      <<NaN>>, <<Obj1>>, <<Obj2>>, <<Obj1PlusD>>, <<StrictCustom>> }

CellInvoke == \E args \in CellArgs :
                  \E ret \in {Returns(OriginalMethod("o1", "method1", args)), Throws} :
                      Invoke("o1", "method1", args, ret) /\ UNCHANGED promises

CellClearMemo == ClearMemo("o1", "method1")

NextCell == CellInvoke \/ CellClearMemo

SpecCell == Init /\ [][NextCell]_vars

\* The cell of o1.method1.
Cell == cells[ClosureOf("o1")]["method1"]

(***************************************************************************)
(* Spec: two instances of a class with two memoized methods, the methods   *)
(* called, cleared one by one and cleared together; createMemoizedMethod   *)
(* called directly for one method of one instance, and the function it     *)
(* returns called and cleared.                                             *)
(***************************************************************************)
MethodArgs == { <<Num(5)>>, <<Num(6)>> }

InvokeMethod == \E o \in Owners, key \in Keys, args \in MethodArgs :
                    /\ Invoke(o, key, args, Returns(OriginalMethod(o, key, args)))
                    /\ UNCHANGED promises

ClearMethod == \E o \in Owners, key \in Keys : ClearMemo(o, key)

ClearAllMethods == \E o \in Owners : ClearAll(o)

\* The direct call is made for a method the instance has already computed
\* with, once: a further call would only replace one detached closure by
\* another.
CreateDirect ==
    /\ computeCount["o1"]["method1"] > 0
    /\ <<"method1", "detached">> \notin memoizedClearFns["o1"].entries
    /\ CreateMemoizedMethod("o1", "method1")

\* The function of the direct call exists once the call has been made; its
\* registry entry stays, the getter of method1 having run before the call.
DirectCreated == <<"method1", "detached">> \in memoizedClearFns["o1"].entries

CallDirect == \E args \in MethodArgs :
                  /\ DirectCreated
                  /\ CallMemoizedFn("o1", "method1", args,
                                    Returns(OriginalMethod("o1", "method1", args)))
                  /\ UNCHANGED promises

\* f.clearMemo() is called when f holds a result: on a new closure it
\* writes the values the closure already has.
ClearDirect ==
    /\ DirectCreated
    /\ cells["detached"]["method1"].calledOnce
    /\ CallClearMemo("o1", "method1")

Next == \/ InvokeMethod \/ ClearMethod \/ ClearAllMethods
        \/ CreateDirect \/ CallDirect \/ ClearDirect

Spec == Init /\ [][Next]_vars

\* Time passes.
Tick ==
    /\ now < MaxTime
    /\ now' = now + 1
    /\ UNCHANGED <<decorators, cells, defined, memoizedClearFns, computeCount,
                   promises, ttlCells, classDef, accessor, last, prev, frames>>

(***************************************************************************)
(* SpecAsync: async methods of one instance: one decorated with memoized,  *)
(* and fetchUserData and fetchProductData of the example, decorated with   *)
(* memoizedTTL.  An async method returns a pending promise at once; the    *)
(* promise settles later, on its own, while time passes.  The cells of the *)
(* two decorators share nothing: a behaviour calls the memoized method or  *)
(* it calls the two memoizedTTL methods.                                   *)
(***************************************************************************)
AsyncArgs == { <<Str("123")>>, <<Str("456")>> }

MaxPromises == 4

\* The promise an async original method returns when it is run for key.
Pending(key, args) == [state |-> "pending", key |-> key, args |-> args]

\* An async method decorated with memoized is called: when memoizedFn runs
\* it, it runs up to its first await and returns a new promise.
AsyncInvoke ==
    \E args \in AsyncArgs :
        /\ Invoke("o1", "method1", args, Returns(Promise(Len(promises) + 1)))
        /\ last'.computed => Len(promises) < MaxPromises
        /\ promises' = IF last'.computed
                       THEN Append(promises, Pending("method1", args))
                       ELSE promises

\* api[key](...args) at the current time, key being an async method
\* decorated with memoizedTTL
AsyncTtlInvoke(key, args) ==
    \E r \in {memoizedTtlFn(ttlCells[key], args,
                            Returns(Promise(Len(promises) + 1)),
                            TtlMillis(key), now)} :
        /\ r.computed => Len(promises) < MaxPromises
        /\ ttlCells' = [ttlCells EXCEPT ![key] = r.cell]
        /\ promises' = IF r.computed
                       THEN Append(promises, Pending(key, args))
                       ELSE promises
        /\ last' = [op |-> "invoke", owner |-> "o1", key |-> key, args |-> args,
                    computed |-> r.computed, threw |-> FALSE,
                    result |-> r.result, before |-> ttlCells[key], at |-> now]
        /\ prev' = last
        /\ UNCHANGED <<decorators, cells, defined, memoizedClearFns,
                       computeCount, now, classDef, accessor, frames>>

\* The behaviour is one of the memoized method: nothing has been called yet
\* or the memoized method has.
MemoizedRun == last.key = "method1"

\* The behaviour is one of the memoizedTTL methods.
MemoizedTtlRun == last.op = "none" \/ last.key \in TtlKeys

AsyncMethod == MemoizedRun /\ AsyncInvoke

AsyncClearMemo == MemoizedRun /\ CellClearMemo

\* api.fetchUserData('123')
FetchUserData ==
    MemoizedTtlRun /\ AsyncTtlInvoke("fetchUserData", <<Str("123")>>)

\* api.fetchProductData('456')
FetchProductData ==
    MemoizedTtlRun /\ AsyncTtlInvoke("fetchProductData", <<Str("456")>>)

\* await new Promise(resolve => setTimeout(resolve, 6000))
Wait == last.key \in TtlKeys /\ Tick

\* The cell that serves a method of the instance.
AsyncCell(key) ==
    IF key \in TtlKeys THEN ttlCells[key] ELSE cells[ClosureOf("o1")][key]

\* The awaited work of promise p ends: the promise is fulfilled or rejected.
Settle(p, how) ==
    /\ promises[p].state = "pending"
    /\ promises' = [promises EXCEPT ![p].state = how]
    /\ last' = [op |-> "settle", owner |-> "o1", key |-> promises[p].key,
                args |-> promises[p].args, computed |-> FALSE, threw |-> FALSE,
                result |-> Promise(p), before |-> AsyncCell(promises[p].key)]
    /\ prev' = last
    /\ UNCHANGED <<decorators, cells, defined, memoizedClearFns, computeCount,
                   now, ttlCells, classDef, accessor, frames>>

\* How the promise of a method can end: the methods of the example wait and
\* return, they never throw.
Outcomes(key) ==
    IF key \in TtlKeys THEN {"fulfilled"} ELSE {"fulfilled", "rejected"}

SettlePromise == \E p \in 1..Len(promises) :
                     \E how \in Outcomes(promises[p].key) : Settle(p, how)

NextAsync == \/ AsyncMethod \/ AsyncClearMemo
             \/ FetchUserData \/ FetchProductData \/ Wait
             \/ SettlePromise

SpecAsync == Init /\ [][NextAsync]_vars

(***************************************************************************)
(* SpecTTL: memoizedTTL methods of one instance and the clock.             *)
(***************************************************************************)
TtlArgs == { <<Str("test")>>, <<Str("other")>> }

NoTtlCall == [op |-> "none", key |-> "shortCache", args |-> <<>>,
              computed |-> FALSE, result |-> Undefined, before |-> NewTtlCell,
              at |-> 0]

InitTTL ==
    /\ decorators = "legacy"
    /\ InitCells
    /\ classDef = DecoratedClass(decorators)
    /\ last = NoTtlCall
    /\ prev = NoTtlCall

TtlInvokeSharedClock(key, args) ==
    LET r == memoizedTtlFn(ttlCells[key], args,
                           Returns(OriginalMethod("o1", key, args)),
                           TtlMillis(key), now)
    IN  /\ ttlCells' = [k \in TtlKeys |->
                           IF k = key THEN r.cell
                           ELSE IF r.computed /\ ttlCells[k].calledOnce
                           THEN [ttlCells[k] EXCEPT !.computedAt = At(now)]
                           ELSE ttlCells[k]]
        /\ last' = [op |-> "invoke", key |-> key, args |-> args,
                    computed |-> r.computed, result |-> r.result,
                    before |-> ttlCells[key], at |-> now]
        /\ prev' = last
        /\ UNCHANGED <<decorators, cells, defined, memoizedClearFns,
                       computeCount, promises, now, classDef, accessor, frames>>

\* o[key](...args) at the current time
TtlInvoke(key, args) ==
    LET r == memoizedTtlFn(ttlCells[key], args,
                           Returns(OriginalMethod("o1", key, args)),
                           TtlMillis(key), now)
    IN  /\ ttlCells' = [ttlCells EXCEPT ![key] = r.cell]
        /\ last' = [op |-> "invoke", key |-> key, args |-> args,
                    computed |-> r.computed, result |-> r.result,
                    before |-> ttlCells[key], at |-> now]
        /\ prev' = last
        /\ UNCHANGED <<decorators, cells, defined, memoizedClearFns,
                       computeCount, promises, now, classDef, accessor, frames>>

\* o[key].clearMemo()
TtlClearMemo(key) ==
    /\ ttlCells' = [ttlCells EXCEPT ![key] = clearMemoTtl(ttlCells[key])]
    /\ last' = [op |-> "clearMemo", key |-> key, args |-> <<>>,
                computed |-> FALSE, result |-> Undefined,
                before |-> ttlCells[key], at |-> now]
    /\ prev' = last
    /\ UNCHANGED <<decorators, cells, defined, memoizedClearFns,
                   computeCount, promises, now, classDef, accessor, frames>>

SingleTtlKeys == {"zeroCache", "shortCache"}

TtlCall == \E key \in SingleTtlKeys, args \in TtlArgs : TtlInvoke(key, args)

TtlClear == \E key \in SingleTtlKeys : TtlClearMemo(key)

NextTTL == TtlCall \/ TtlClear \/ Tick

SpecTTL == InitTTL /\ [][NextTTL]_vars

(***************************************************************************)
(* SpecEqual: deepEqual called once, on any pair of the values below, with *)
(* the default depth or with any depth from -1 to MaxDepth.                *)
(***************************************************************************)
MaxDepth == 5

EqualValues ==
    { Num(1), Num(2), NaN, Str("test"), Bool(TRUE), Null, Undefined }
        \cup { Ref(i) : i \in { i \in 1..Len(Heap) : Heap[i].kind # "Function" } }
        \cup { Ref(34), Ref(45) }

\* The objects that hold themselves.
SelfHolding == {Ref(32), Ref(33)}

\* Two distinct self-holding objects are compared with the depths up to
\* MaxDepth only: the comparison goes as deep as the depth it is given.
EqualDepths(a, b) ==
    IF a \in SelfHolding /\ b \in SelfHolding /\ a # b
    THEN (0 - 1)..MaxDepth
    ELSE (0 - 1)..MaxDepth \cup {DefaultDepth}

\* The arguments of a call that has not been made yet.
Arguments(a, b, depth) ==
    [op |-> "arguments", a |-> a, b |-> b, depth |-> depth,
     result |-> FALSE, threw |-> FALSE, levels |-> 0]

InitEqual ==
    /\ decorators = "legacy"
    /\ InitCells
    /\ classDef = DecoratedClass(decorators)
    /\ last \in UNION { { Arguments(p[1], p[2], depth) :
                              depth \in EqualDepths(p[1], p[2]) } :
                          p \in EqualValues \X EqualValues }
    /\ prev = last

\* deepEqual(a, b, depth)
Compare ==
    /\ last.op = "arguments"
    /\ last' = [op |-> "deepEqual", a |-> last.a, b |-> last.b,
                depth |-> last.depth,
                result |-> deepEqual(last.a, last.b, last.depth),
                threw |-> deepEqualTrace(last.a, last.b, last.depth).threw,
                levels |-> deepEqualTrace(last.a, last.b, last.depth).levels]
    /\ UNCHANGED <<decorators, cells, defined, memoizedClearFns, computeCount,
                   promises, now, ttlCells, classDef, accessor, prev, frames>>

NextEqual == Compare

SpecEqual == InitEqual /\ [][NextEqual]_vars

(***************************************************************************)
(* SpecClass: the class is defined, memoized being applied to each member  *)
(* that carries it, whatever the member was declared as; once the class is *)
(* defined its instances are used: the method called, the getter read,     *)
(* clearAllMemoized called.                                                *)
(***************************************************************************)
InitClass ==
    /\ decorators \in {"legacy", "stage3"}
    /\ InitCells
    /\ classDef = [m \in Members |-> Undecorated]
    /\ last = NoCall
    /\ prev = NoCall

\* @memoized on member m, declared as the given kind.  An error thrown by the
\* decorator ends the class definition: no later decorator runs.
Decorate(m, declared) ==
    LET r == memoized(Site(decorators, declared))
    IN  /\ classDef[m].wrapper = "none"
        /\ \A other \in Members : classDef[other].wrapper # "failed"
        /\ classDef' = [classDef EXCEPT ![m] = [declared |-> declared,
                                                wrapper |-> r.wrapper,
                                                cell |-> r.cell]]
        /\ last' = [op |-> "decorate", owner |-> "prototype", key |-> m,
                    args |-> <<>>, computed |-> FALSE, threw |-> r.threw,
                    result |-> IF r.threw THEN Thrown ELSE Undefined,
                    before |-> NewCell]
        /\ prev' = last
        /\ UNCHANGED <<decorators, cells, defined, memoizedClearFns,
                       computeCount, promises, now, ttlCells, accessor, frames>>

\* The method can be declared anything but a getter, the getter anything but
\* a method.
DecorateMember ==
    \E m \in Members, declared \in DeclaredKinds(decorators) :
        /\ declared # (IF m \in AccessorKeys THEN "method" ELSE "getter")
        /\ Decorate(m, declared)

\* What the original getter returns when it runs: this._value * 2, for the
\* value the instance holds at that time.
GetterValues == {Num(10), Num(20)}

\* o[key], key being a memoized getter
GetAccessor(o, key, ret) ==
    LET r == memoizedGetter(accessor[o][key], ret)
    IN  /\ r.computed => accessor[o][key].runs < MaxCompute
        /\ accessor' = [accessor EXCEPT ![o][key] = r.acc]
        /\ last' = [op |-> "get", owner |-> o, key |-> key, args |-> <<>>,
                    computed |-> r.computed, threw |-> r.threw,
                    result |-> r.result, before |-> accessor[o][key]]
        /\ prev' = last
        /\ UNCHANGED <<decorators, cells, defined, memoizedClearFns,
                       computeCount, promises, now, ttlCells, classDef, frames>>

ClassGet ==
    \E o \in Owners, key \in AccessorKeys :
        \E ret \in {Returns(v) : v \in GetterValues} \cup {Throws} :
            /\ ClassDefined
            /\ classDef[key].wrapper = "getter"
            /\ GetAccessor(o, key, ret)

\* calc.method1(5)
ClassArgs == { <<Num(5)>> }

ClassInvoke ==
    \E o \in Owners, key \in Members \cap Keys, args \in ClassArgs :
        /\ ClassDefined
        /\ classDef[key].wrapper = "method"
        /\ Invoke(o, key, args, Returns(OriginalMethod(o, key, args)))
        /\ UNCHANGED promises

ClassClearAll == \E o \in Owners : ClassDefined /\ ClearAll(o)

NextClass == DecorateMember \/ ClassGet \/ ClassInvoke \/ ClassClearAll

SpecClass == InitClass /\ [][NextClass]_vars

(***************************************************************************)
(* SpecTTLPair: the two memoizedTTL methods of MultiTimedProcessor, one    *)
(* with the short and one with the long time to live, on one instance.     *)
(***************************************************************************)
PairTtlKeys == {"shortCache", "longCache"}

TtlPairCall == \E key \in PairTtlKeys, args \in TtlArgs : TtlInvoke(key, args)

TtlPairClear == \E key \in PairTtlKeys : TtlClearMemo(key)

NextTTLPair == TtlPairCall \/ TtlPairClear \/ Tick

SpecTTLPair == InitTTL /\ [][NextTTLPair]_vars

(***************************************************************************)
(* SpecReentrant: one memoized method of one instance whose original       *)
(* method can, while it runs, call the same memoized method again or clear *)
(* it.  A call that misses is taken in the two halves the original method  *)
(* runs between: previousArgs = [...args] before it, cachedResult = ...;   *)
(* calledOnce = true after it has returned, nothing after it has thrown.   *)
(***************************************************************************)
MaxNesting == 2

ReentrantArgs == { <<>>, <<Num(1)>>, <<Num(1), Num(2)>> }

\* A call of memoizedFn that has stored its arguments and runs the original
\* method.
Frame(args, before) == [args |-> args, before |-> before]

\* o1.method1(...args), the arguments being the stored ones: the call returns
\* cachedResult; it can be made from inside a running original method.
ReentrantHitWith(args) ==
    /\ isSame(CellsAfterGet("o1", "method1")[ClosureOf("o1")]["method1"], args).value
    /\ Invoke("o1", "method1", args, Throws)
    /\ UNCHANGED promises

ReentrantHit == \E args \in ReentrantArgs : ReentrantHitWith(args)

\* o1.method1(...args), the arguments not being the stored ones: the call
\* stores them and enters the original method.
ReentrantEnterWith(args) ==
    LET c == ClosureOf("o1")
        got == CellsAfterGet("o1", "method1")
    IN  /\ isSame(got[c]["method1"], args) = Same(FALSE)
        /\ Len(frames) < MaxNesting
        /\ TotalCompute + Len(frames) < MaxCompute
        /\ cells' = [got EXCEPT ![c]["method1"] = StoreArgs(got[c]["method1"], args)]
        /\ defined' = DefinedAfterGet("o1", "method1")
        /\ memoizedClearFns' = ClearFnsAfterGet("o1", "method1")
        /\ frames' = Append(frames, Frame(args, got[c]["method1"]))
        /\ last' = [op |-> "enter", owner |-> "o1", key |-> "method1",
                    args |-> args, computed |-> FALSE, threw |-> FALSE,
                    result |-> Undefined, before |-> got[c]["method1"]]
        /\ prev' = last
        /\ UNCHANGED <<decorators, computeCount, promises, now, ttlCells,
                       classDef, accessor>>

ReentrantEnter == \E args \in ReentrantArgs : ReentrantEnterWith(args)

\* The innermost running original method returns or throws, and the call of
\* memoizedFn that ran it ends.
ReentrantLeave ==
    \E threw \in BOOLEAN :
        LET c == ClosureOf("o1")
            top == frames[Len(frames)]
            result == IF threw THEN Thrown
                      ELSE OriginalMethod("o1", "method1", top.args)
        IN  /\ frames # <<>>
            /\ cells' = IF threw THEN cells
                        ELSE [cells EXCEPT ![c]["method1"] = StoreResult(@, result)]
            /\ frames' = SubSeq(frames, 1, Len(frames) - 1)
            /\ computeCount' = [computeCount EXCEPT !["o1"]["method1"] = @ + 1]
            /\ last' = [op |-> "invoke", owner |-> "o1", key |-> "method1",
                        args |-> top.args, computed |-> TRUE, threw |-> threw,
                        result |-> result, before |-> top.before]
            /\ prev' = last
            /\ UNCHANGED <<decorators, defined, memoizedClearFns, promises, now,
                           ttlCells, classDef, accessor>>

NextReentrant == ReentrantHit \/ ReentrantEnter \/ ReentrantLeave \/ CellClearMemo

SpecReentrant == Init /\ [][NextReentrant]_vars

(***************************************************************************)
(* SpecNested: the memoized method of SpecReentrant and a memoizedTTL      *)
(* method of the same instance, each of whose original methods can, while  *)
(* it runs, call either of the two again or clear it, and return or throw. *)
(* A call of the memoizedTTL method that misses runs the original method   *)
(* and then overwrites previousArgs, cachedResult and computedAt and sets  *)
(* calledOnce; it writes nothing when the original method throws.          *)
(***************************************************************************)
NestedArgs == { <<Num(1)>> }

NestedTtlArgs == { <<Str("test")>> }

\* o1.method1(1), a hit and a miss
NestedHit == \E args \in NestedArgs : ReentrantHitWith(args)

NestedEnter == \E args \in NestedArgs : ReentrantEnterWith(args)

\* A call of a memoizedTTL method, made at the time at, that runs the
\* original method.
TtlFrame(key, args, before, at) ==
    [key |-> key, args |-> args, before |-> before, at |-> at]

IsTtlFrame(frame) == "at" \in DOMAIN frame

\* Whether a call at the current time is a hit.
ttlIsSame(key, args) ==
    /\ isSame(ttlCells[key], args).value
    /\ ttlIsFresh(ttlCells[key], TtlMillis(key), now)

\* o1.shortCache(...args), arguments stored and elapsed < ttlMillis
NestedTtlHit ==
    \E args \in NestedTtlArgs :
        ttlIsSame("shortCache", args) /\ TtlInvoke("shortCache", args)

\* o1.shortCache(...args), a miss: the call enters the original method.
NestedTtlEnter ==
    \E args \in NestedTtlArgs :
        /\ ~ttlIsSame("shortCache", args)
        /\ Len(frames) < MaxNesting
        /\ frames' = Append(frames, TtlFrame("shortCache", args,
                                             ttlCells["shortCache"], now))
        /\ last' = [op |-> "enter", key |-> "shortCache", args |-> args,
                    computed |-> FALSE, result |-> Undefined,
                    before |-> ttlCells["shortCache"], at |-> now]
        /\ prev' = last
        /\ UNCHANGED <<decorators, cells, defined, memoizedClearFns,
                       computeCount, promises, now, ttlCells, classDef, accessor>>

\* The innermost running original method, one of a memoizedTTL method,
\* returns or throws, and the call that ran it ends.
NestedTtlLeave ==
    \E threw \in BOOLEAN :
        LET top == frames[Len(frames)]
            result == IF threw THEN Thrown
                      ELSE OriginalMethod("o1", top.key, top.args)
        IN  /\ frames # <<>>
            /\ IsTtlFrame(top)
            /\ ttlCells' = IF threw THEN ttlCells
                           ELSE [ttlCells EXCEPT ![top.key] =
                                    [previousArgs |-> top.args, calledOnce |-> TRUE,
                                     cachedResult |-> result,
                                     computedAt |-> At(top.at)]]
            /\ frames' = SubSeq(frames, 1, Len(frames) - 1)
            /\ last' = [op |-> "invoke", key |-> top.key, args |-> top.args,
                        computed |-> TRUE, threw |-> threw, result |-> result,
                        before |-> top.before, at |-> top.at]
            /\ prev' = last
            /\ UNCHANGED <<decorators, cells, defined, memoizedClearFns,
                           computeCount, promises, now, classDef, accessor>>

\* o1.shortCache.clearMemo()
NestedTtlClearMemo == TtlClearMemo("shortCache")

\* The innermost running original method, one of the memoized method, returns
\* or throws.
NestedLeave ==
    /\ frames # <<>>
    /\ ~IsTtlFrame(frames[Len(frames)])
    /\ ReentrantLeave

\* Time passes, up to the expiry of what shortCache stored at the start.
NestedTick == now < ShortTtl /\ Tick

NextNested == \/ NestedHit \/ NestedEnter \/ NestedLeave \/ CellClearMemo
              \/ NestedTtlHit \/ NestedTtlEnter \/ NestedTtlLeave
              \/ NestedTtlClearMemo \/ NestedTick

SpecNested == Init /\ [][NextNested]_vars

(***************************************************************************)
(* SpecSlot: one memoized method of one instance called in turn with       *)
(* different argument lists, numbers and objects, the original method      *)
(* always returning.                                                       *)
(***************************************************************************)
SlotArgs == { <<Num(1), Num(2)>>, <<Num(2), Num(3)>>, <<Ref(8)>>, <<Ref(9)>> }

SlotInvoke == \E args \in SlotArgs :
                  /\ Invoke("o1", "method1", args,
                            Returns(OriginalMethod("o1", "method1", args)))
                  /\ UNCHANGED promises

NextSlot == SlotInvoke \/ CellClearMemo

SpecSlot == Init /\ [][NextSlot]_vars

(***************************************************************************)
(* SpecVoid: one memoized method of one instance whose original method     *)
(* returns undefined, or throws.                                           *)
(***************************************************************************)
VoidArgs == { <<>>, <<Undefined>>, <<Num(1)>> }

VoidInvoke == \E args \in VoidArgs :
                  \E ret \in {Returns(Undefined), Throws} :
                      Invoke("o1", "method1", args, ret) /\ UNCHANGED promises

NextVoid == VoidInvoke \/ CellClearMemo

SpecVoid == Init /\ [][NextVoid]_vars

(***************************************************************************)
(* Properties of the plain cell (SpecCell).                                *)
(***************************************************************************)
\* The hit condition as the specification words it: same length, and equal
\* position by position under the equality engine.
ArgsEqual(args, stored) ==
    /\ Len(args) = Len(stored)
    /\ \A i \in 1..Len(args) : deepEqual(args[i], stored[i], DefaultDepth)

\* C1: a call made while calledOnce is true, with an argument list of the
\* length of previousArgs and equal to it position by position, returns
\* cachedResult, does not run the original method (computeCount is unchanged)
\* and leaves the cell as it was.
C1_HitReturnsStored ==
    [][ ( /\ last'.op = "invoke"
          /\ last'.before.calledOnce
          /\ ArgsEqual(last'.args, last'.before.previousArgs) )
        => ( /\ ~last'.computed
             /\ ~last'.threw
             /\ last'.result = last'.before.cachedResult
             /\ computeCount' = computeCount
             /\ cells' = cells ) ]_vars

\* A second add(1, 2)-like call: two arguments, equal to the stored ones, after
\* the original method has run once.
C1_Witness ==
    /\ last.op = "invoke"
    /\ last.before.calledOnce
    /\ Len(last.args) = 2
    /\ ArgsEqual(last.args, last.before.previousArgs)
    /\ ~last.computed
    /\ computeCount["o1"]["method1"] = 1

\* C2: a call whose original method throws leaves the cell exactly as it was
\* before the call (previousArgs, cachedResult and calledOnce unchanged).
C2_FailedCallLeavesCell ==
    (last.op = "invoke" /\ last.threw) => Cell = last.before

\* C2, its consequence: a call repeating the arguments of the call that just
\* failed is never served from the cache.
C2_RetryAfterFailureComputes ==
    ( /\ last.op = "invoke" /\ prev.op = "invoke"
      /\ prev.threw /\ last.args = prev.args ) => last.computed

\* C3: when the original method throws on a call made while calledOnce is
\* false, calledOnce stays false, and the next call with the same arguments
\* runs the original method again: it gets a fresh result or the new error,
\* never a cached one.
C3_FirstCallFailure ==
    /\ (last.op = "invoke" /\ last.threw /\ ~last.before.calledOnce)
           => ~Cell.calledOnce
    /\ ( /\ last.op = "invoke" /\ prev.op = "invoke"
         /\ prev.threw /\ ~prev.before.calledOnce
         /\ last.args = prev.args )
           => ( /\ last.computed
                /\ last.result \in {Thrown, OriginalMethod("o1", "method1", last.args)} )

\* A failed first call followed by a successful call with the same arguments.
C3_Witness ==
    /\ last.op = "invoke" /\ prev.op = "invoke"
    /\ prev.threw /\ ~prev.before.calledOnce /\ prev.before = NewCell
    /\ last.args = prev.args /\ Len(last.args) > 0
    /\ last.computed /\ ~last.threw

\* C4: after clearMemo the cell is back to previousArgs = [], cachedResult
\* undefined, calledOnce false, and the next call runs the original method
\* whatever its arguments, those cached before the clearMemo included.
C4_ClearMemoResets ==
    /\ last.op = "clearMemo" => Cell = NewCell
    /\ (last.op = "invoke" /\ prev.op = "clearMemo") => last.computed

\* A call right after clearMemo with the very arguments that were cached.
C4_Witness ==
    /\ last.op = "invoke" /\ prev.op = "clearMemo"
    /\ prev.before.calledOnce
    /\ prev.before.previousArgs = last.args /\ Len(last.args) > 0
    /\ last.computed /\ ~last.threw

\* C7: a call with a separately built object of the same structure as the
\* stored argument (nested object and array included) is a hit; a call with an
\* object that has one more field, or with the stored object having one more
\* field, is a miss.
C7_StructuralHit ==
    /\ ( /\ last.op = "invoke" /\ last.before.calledOnce
         /\ <<last.before.previousArgs, last.args>> \in
                {<<(<<Obj1>>), (<<Obj2>>)>>, <<(<<Obj2>>), (<<Obj1>>)>>} )
           => (~last.computed /\ last.result = last.before.cachedResult)
    /\ ( /\ last.op = "invoke" /\ last.before.calledOnce
         /\ <<last.before.previousArgs, last.args>> \in
                {<<(<<Obj1>>), (<<Obj1PlusD>>)>>, <<(<<Obj2>>), (<<Obj1PlusD>>)>>,
                 <<(<<Obj1PlusD>>), (<<Obj1>>)>>, <<(<<Obj1PlusD>>), (<<Obj2>>)>>} )
           => last.computed

\* process(obj1), then process(obj2): a hit that returns what was computed from
\* obj1.
C7_Witness ==
    /\ last.op = "invoke" /\ ~last.computed
    /\ last.args = <<Obj2>>
    /\ last.before.previousArgs = <<Obj1>>
    /\ last.result = OriginalMethod("o1", "method1", <<Obj1>>)

(***************************************************************************)
(* Properties of the instances and the registry (Spec).                    *)
(***************************************************************************)
\* C5: a method that has run on an instance runs its original method again on
\* its first call after clearAllMemoized of that instance.
C5_ClearAllForcesRecompute ==
    ( /\ last.op = "invoke" /\ prev.op = "clearAllMemoized"
      /\ prev.owner = last.owner
      /\ computeCount[last.owner][last.key] >= 1 ) => last.computed

\* C6: a call, a clearMemo or a clearAllMemoized on one instance changes, for
\* no other instance, whether its next call of a method hits or what that call
\* returns.
C6_OtherInstanceUnaffected ==
    [][ \A o \in Owners, k \in Keys, args \in MethodArgs :
          o # last'.owner =>
            LET ret == Returns(OriginalMethod(o, k, args))
                b == memoizedFn(cells[ClosureOf(o)][k], args, ret)
                a == memoizedFn(cells'[ClosureOf(o)][k], args, ret)
            IN  b.computed = a.computed /\ b.result = a.result ]_vars

(***************************************************************************)
(* Properties of an async method (SpecAsync).                              *)
(***************************************************************************)
\* C8, as claimed: a call with arguments equal to those of an earlier call
\* of the same method whose promise is still pending is not deduplicated, it
\* runs the original method itself.
C8_PendingCallRecomputes ==
    ( /\ last.op = "invoke"
      /\ \E p \in 1..Len(promises) :
             /\ promises[p].state = "pending"
             /\ promises[p].key = last.key
             /\ ArgsEqual(last.args, promises[p].args) )
        => last.computed

\* The call found the cell run and its arguments stored and, on a
\* time-bounded cell, elapsed < ttlMillis.
AsyncCallHits ==
    /\ last.before.calledOnce
    /\ ArgsEqual(last.args, last.before.previousArgs)
    /\ last.key \in TtlKeys
           => last.at - last.before.computedAt.at < TtlMillis(last.key)

AsyncKeys == {"method1", "fetchUserData", "fetchProductData"}

\* The promise of the last call of the method that ran the original method.
LastPromise(key) ==
    CHOOSE p \in 1..Len(promises) :
        /\ promises[p].key = key
        /\ \A q \in (p + 1)..Len(promises) : promises[q].key # key

\* C8, amended: the cell stores the promise at call time.  A call that finds
\* the cell run, its arguments stored and, on a time-bounded cell,
\* elapsed < ttlMillis, is a hit that returns the stored promise without
\* running the original method, pending or not; every other call (cell not
\* run, other arguments, or elapsed >= ttlMillis) runs it and stores the new
\* promise; a promise settling writes nothing to the cell; so the stored
\* result is the promise of the last call that missed.
C8_PendingCallSharesPromise ==
    /\ (last.op = "invoke" /\ AsyncCallHits)
           => (~last.computed /\ last.result = last.before.cachedResult)
    /\ (last.op = "invoke" /\ ~AsyncCallHits)
           => ( /\ last.computed
                /\ last.result = Promise(Len(promises))
                /\ AsyncCell(last.key).cachedResult = last.result )
    /\ last.op = "settle" => AsyncCell(last.key) = last.before
    /\ \A key \in AsyncKeys :
           AsyncCell(key).calledOnce
               => AsyncCell(key).cachedResult = Promise(LastPromise(key))

\* fetchUserData('123') three times while the first call's promise is
\* pending: the second call, inside the window, gets that promise; the third,
\* when ttlMillis have passed, runs the original method again.
C8_Witness ==
    /\ prev.op = "invoke" /\ prev.key = "fetchUserData" /\ ~prev.computed
    /\ prev.result = Promise(1)
    /\ last.op = "invoke" /\ last.key = "fetchUserData" /\ last.args = prev.args
    /\ last.before.calledOnce /\ last.before.previousArgs = last.args
    /\ last.at - last.before.computedAt.at >= ShortTtl
    /\ last.computed /\ last.result = Promise(2)
    /\ promises[1].state = "pending" /\ promises[1].key = "fetchUserData"

(***************************************************************************)
(* Properties of the time-bounded cell (SpecTTL).                          *)
(***************************************************************************)
\* A call is a hit iff the cell has run, the arguments equal the stored ones
\* and elapsed = now - computedAt < ttlMillis.
TtlHitIff ==
    last.op = "invoke" =>
        ( ~last.computed <=>
            ( /\ last.before.calledOnce
              /\ ArgsEqual(last.args, last.before.previousArgs)
              /\ last.at - last.before.computedAt.at < TtlMillis(last.key) ) )

\* A miss recomputes and sets computedAt to the time of the call.
TtlMissRestartsClock ==
    (last.op = "invoke" /\ last.computed) =>
        /\ ttlCells[last.key].computedAt = At(last.at)
        /\ ttlCells[last.key].previousArgs = last.args
        /\ ttlCells[last.key].cachedResult = last.result
        /\ ttlCells[last.key].calledOnce

\* A call that follows a recomputation at once (same clock reading, same
\* method, same arguments).
FollowsRecomputation ==
    /\ last.op = "invoke" /\ prev.op = "invoke" /\ prev.computed
    /\ last.key = prev.key /\ last.args = prev.args /\ last.at = prev.at

\* C9, as claimed: hit iff hasRun, equal arguments and elapsed < ttlMillis; a
\* miss sets computedAt to the time of the call; and a call that follows a
\* recomputation at once with the same arguments hits again.
C9_HitIffFreshAndRehit ==
    /\ TtlHitIff
    /\ TtlMissRestartsClock
    /\ FollowsRecomputation => ~last.computed

\* C9, amended: as claimed, the call that follows at once hitting again
\* whenever ttlMillis > 0 (with ttlMillis = 0 every call is a miss).
C9_HitIffFreshAndRehitPositiveTtl ==
    /\ TtlHitIff
    /\ TtlMissRestartsClock
    /\ (FollowsRecomputation /\ TtlMillis(last.key) > 0) => ~last.computed
    /\ (last.op = "invoke" /\ TtlMillis(last.key) = 0) => last.computed

\* The stored arguments again at exactly elapsed = ttlMillis: a miss, and the
\* same call made again at once: a hit.
C9_Witness ==
    /\ FollowsRecomputation /\ ~last.computed
    /\ last.key = "shortCache"
    /\ prev.before.calledOnce /\ prev.before.previousArgs = prev.args
    /\ prev.at - prev.before.computedAt.at = ShortTtl
    /\ last.before.computedAt = At(prev.at)

\* C10: a hit leaves computedAt (and the whole cell) as it was, computedAt
\* changes only in a call that recomputes or in clearMemo, and a call made
\* when now - computedAt >= ttlMillis is a miss although hits came in between.
C10_HitsDoNotExtendWindow ==
    /\ [][ (last'.op = "invoke" /\ ~last'.computed) => ttlCells' = ttlCells ]_vars
    /\ [][ \A k \in TtlKeys :
             ttlCells'[k].computedAt # ttlCells[k].computedAt =>
                 /\ last'.key = k
                 /\ \/ last'.op = "invoke" /\ last'.computed
                    \/ last'.op = "clearMemo" ]_vars
    /\ []( ( /\ last.op = "invoke" /\ last.before.calledOnce
             /\ last.at - last.before.computedAt.at >= TtlMillis(last.key) )
           => last.computed )

\* Computed at some time, hit later inside the window, then called with the
\* same arguments when ttlMillis have passed since the computation but not
\* since the hit: a miss.
C10_Witness ==
    /\ last.op = "invoke" /\ prev.op = "invoke"
    /\ last.key = "shortCache" /\ prev.key = "shortCache"
    /\ ~prev.computed /\ last.computed
    /\ last.args = prev.args
    /\ prev.at > prev.before.computedAt.at
    /\ last.before.computedAt = prev.before.computedAt
    /\ last.at - last.before.computedAt.at = ShortTtl

(***************************************************************************)
(* Properties of two time-bounded cells of one instance (SpecTTLPair).     *)
(***************************************************************************)
\* C11: a call or a clearMemo of one memoizedTTL method changes the cell of
\* no other method of the instance (previousArgs, cachedResult, calledOnce,
\* computedAt), and the passing of time changes no cell; so each cell expires
\* by its own ttl: shortCache, called with the stored arguments when at least
\* ShortTtl has passed since its computation, recomputes, and longCache,
\* called with the stored arguments less than LongTtl after its computation,
\* hits, also when both were computed at the same time.
C11_CellsExpireIndependently ==
    /\ [][ \A k \in TtlKeys :
             ttlCells'[k] # ttlCells[k] =>
                 (last'.key = k /\ last'.op \in {"invoke", "clearMemo"}) ]_vars
    /\ []( ( /\ last.op = "invoke" /\ last.key = "shortCache"
             /\ last.before.calledOnce
             /\ last.at - last.before.computedAt.at >= ShortTtl )
           => last.computed )
    /\ []( ( /\ last.op = "invoke" /\ last.key = "longCache"
             /\ last.before.calledOnce
             /\ ArgsEqual(last.args, last.before.previousArgs)
             /\ last.at - last.before.computedAt.at < LongTtl )
           => (~last.computed /\ last.result = last.before.cachedResult) )

\* Both methods computed at the same time; later, at one time between the two
\* ttls, shortCache('test') recomputes and then longCache('test') hits.
C11_Witness ==
    /\ last.op = "invoke" /\ prev.op = "invoke"
    /\ prev.key = "shortCache" /\ last.key = "longCache"
    /\ prev.before.calledOnce /\ prev.before.previousArgs = prev.args
    /\ prev.computed /\ ~last.computed
    /\ last.at = prev.at
    /\ last.before.computedAt = prev.before.computedAt
    /\ last.at - last.before.computedAt.at >= ShortTtl
    /\ last.at - last.before.computedAt.at < LongTtl

(***************************************************************************)
(* Properties of the decorator and of a memoized getter (SpecClass).       *)
(***************************************************************************)
\* The registries hold no entry for a getter.
NoAccessorRegistered ==
    \A o \in Owners : \A e \in memoizedClearFns[o].entries : e[1] \notin AccessorKeys

\* C12, as claimed: over any sequence of reads the original getter runs at
\* most once per instance; the first read runs it and defines the value as
\* the instance's own property; the getter is in no registry.
C12_GetterRunsAtMostOnce ==
    /\ \A o \in Owners, k \in AccessorKeys : accessor[o][k].runs <= 1
    /\ (last.op = "get" /\ last.computed) =>
           /\ accessor[last.owner][last.key].defined
           /\ accessor[last.owner][last.key].value = last.result
    /\ NoAccessorRegistered

\* C12, amended: a read made while the instance has no own property runs the
\* original getter; if the getter returns, the value becomes the instance's
\* own property, and if it throws, the error reaches the caller, nothing is
\* defined and the next read runs the getter again.  A read made once the
\* property is defined returns its value without running the getter.  No
\* step (clearAllMemoized, calls of memoized methods) changes a defined
\* property or runs the getter again, and the getter is in no registry: the
\* getter returns at most once per instance.
C12_GetterReturnsAtMostOnce ==
    /\ [][ \A o \in Owners, k \in AccessorKeys :
             accessor[o][k].defined => accessor'[o][k] = accessor[o][k] ]_vars
    /\ []( (last.op = "get" /\ last.before.defined) =>
               /\ ~last.computed /\ ~last.threw
               /\ last.result = last.before.value
               /\ accessor[last.owner][last.key] = last.before )
    /\ []( (last.op = "get" /\ ~last.before.defined) =>
               /\ last.computed
               /\ accessor[last.owner][last.key].runs = last.before.runs + 1
               /\ accessor[last.owner][last.key].defined = ~last.threw
               /\ ~last.threw => accessor[last.owner][last.key].value = last.result )
    /\ []NoAccessorRegistered

\* The getter read, clearAllMemoized called on the instance, which has a
\* registry, and the getter read again: the value of the first read, the
\* original getter having run once.
C12_Witness ==
    /\ last.op = "get" /\ prev.op = "clearAllMemoized"
    /\ prev.owner = last.owner
    /\ memoizedClearFns[last.owner].present
    /\ ~last.computed
    /\ last.result = accessor[last.owner][last.key].value
    /\ accessor[last.owner][last.key].runs = 1

\* The state of a program whose class definition has created no cell, no
\* registry and no own property.
NothingCreated ==
    /\ cells = [c \in Closures |-> [k \in Keys |-> NewCell]]
    /\ \A o \in Owners : ~memoizedClearFns[o].present
    /\ \A o \in Owners, k \in Keys : ~defined[o][k]
    /\ \A o \in Owners, k \in AccessorKeys : accessor[o][k] = NoAccessor

\* C13: memoized applied to a member that is neither a method nor a getter
\* throws at class definition: createMemoizedMethod has not run for the
\* member, no cell, registry or own property exists, and none ever will, for
\* the class is not defined and nothing is called or read; and every call
\* or read that is made goes to a member declared a method or a getter.
C13_MisuseFailsAtDecoration ==
    /\ \A m \in Members :
           classDef[m].declared \notin {"none", "method", "getter"} =>
               /\ classDef[m].wrapper = "failed"
               /\ ~classDef[m].cell
               /\ last.op = "decorate" /\ last.key = m /\ last.threw
               /\ NothingCreated
    /\ last.op \in {"invoke", "get"} =>
           classDef[last.key].declared \in {"method", "getter"}

\* The method decorated, then memoized applied to a field.
C13_Witness ==
    /\ last.op = "decorate" /\ last.threw
    /\ classDef[last.key].declared = "field"
    /\ prev.op = "decorate" /\ ~prev.threw
    /\ classDef[prev.key].wrapper = "method"

(***************************************************************************)
(* clearMemo, repeated and before any call (SpecCell).                     *)
(***************************************************************************)
\* C14: clearMemo on a cell that was never called leaves it in its initial
\* state and throws nothing, and a clearMemo that follows a clearMemo at once
\* leaves the cell as the first one left it.
C14_ClearMemoIdempotent ==
    /\ (last.op = "clearMemo" /\ last.before = NewCell) =>
           (Cell = NewCell /\ ~last.threw)
    /\ (last.op = "clearMemo" /\ prev.op = "clearMemo") =>
           (Cell = last.before /\ ~last.threw)

\* A cell that holds a result, cleared twice in a row.
C14_Witness ==
    /\ last.op = "clearMemo" /\ prev.op = "clearMemo"
    /\ prev.before.calledOnce
    /\ Len(prev.before.previousArgs) > 0
    /\ Cell = NewCell

(***************************************************************************)
(* Properties of deepEqual (SpecEqual).                                    *)
(***************************************************************************)
\* A scalar, null, undefined, or an array, Map, Set or plain object.
Supported(a) == a.t # "ref" \/ Obj(a).kind \in {"Array", "Map", "Set", "Object"}

IsKind(a, kind) == a.t = "ref" /\ Obj(a).kind = kind

KeySet(a) == {Obj(a).keys[i] : i \in 1..Len(Obj(a).keys)}

\* C15: for scalars, null, undefined, arrays, Maps, Sets and plain objects,
\* nested ones included, and every depth, deepEqual(a, b, depth) and
\* deepEqual(b, a, depth) return the same boolean.
C15_Symmetric ==
    (last.op = "deepEqual" /\ Supported(last.a) /\ Supported(last.b)) =>
        last.result = deepEqual(last.b, last.a, last.depth)

\* C16: deepEqual(x, x, depth) is true for every value x, scalars included,
\* whenever depth lets the call past the depth guard.
C16_Reflexive ==
    (last.op = "deepEqual" /\ last.a = last.b /\ last.depth > 0) => last.result

\* C17: two distinct plain objects are unequal whenever their sets of keys
\* differ, and when the sets are the same they are equal iff deepEqual holds
\* of the two values of every key.
C17_KeySetsDecide ==
    ( /\ last.op = "deepEqual" /\ last.depth > 0
      /\ IsKind(last.a, "Object") /\ IsKind(last.b, "Object")
      /\ last.a # last.b ) =>
        /\ KeySet(last.a) # KeySet(last.b) => ~last.result
        /\ KeySet(last.a) = KeySet(last.b) =>
               ( last.result <=>
                   \A k \in KeySet(last.a) :
                       deepEqual(GetField(Obj(last.a), k), GetField(Obj(last.b), k),
                                 last.depth - 1) )

\* Two elements each equal to the other.
MutuallyEqual(x, y, depth) == deepEqual(x, y, depth) /\ deepEqual(y, x, depth)

\* There is a one-to-one pairing of the elements of a with those of b in
\* which the elements of every pair are mutually equal.
Pairing(a, b, depth) ==
    LET n == Len(Obj(a).vals)
    IN  \E f \in [1..n -> 1..n] :
            /\ \A i, j \in 1..n : f[i] = f[j] => i = j
            /\ \A i \in 1..n : MutuallyEqual(Obj(a).vals[i], Obj(b).vals[f[i]], depth)

NoTwoEqual(b, depth) ==
    \A i, j \in 1..Len(Obj(b).vals) :
        i # j => ~MutuallyEqual(Obj(b).vals[i], Obj(b).vals[j], depth)

\* C18: for two distinct Sets a and b of the same size, no two distinct
\* elements of b being mutually equal, deepEqual(a, b) is true exactly when
\* there is a one-to-one pairing of mutually equal elements.
C18_SetMatchIsPairing ==
    ( /\ last.op = "deepEqual" /\ last.depth > 0
      /\ IsKind(last.a, "Set") /\ IsKind(last.b, "Set")
      /\ last.a # last.b
      /\ Len(Obj(last.a).vals) = Len(Obj(last.b).vals)
      /\ NoTwoEqual(last.b, last.depth - 1) ) =>
        (last.result <=> Pairing(last.a, last.b, last.depth - 1))

\* C19: no call of deepEqual throws, whatever the two values, objects with an
\* equals method included.
C19_NeverThrows == last.op = "deepEqual" => ~last.threw

\* C20: a call with depth <= 0 returns false without looking at its
\* arguments, identical ones included, and a call with depth > 0 goes at most
\* depth calls deep: it ends on every input, objects that contain themselves
\* included.
C20_DepthBounded ==
    last.op = "deepEqual" =>
        /\ last.depth <= 0 => (~last.result /\ last.levels = 0 /\ ~last.threw)
        /\ last.depth > 0 => (last.levels >= 1 /\ last.levels <= last.depth)

\* Two objects that each hold themselves, compared with depth MaxDepth: the
\* comparison goes MaxDepth calls deep and returns false.
C20_Witness ==
    /\ last.op = "deepEqual"
    /\ last.a \in SelfHolding /\ last.b \in SelfHolding /\ last.a # last.b
    /\ last.depth = MaxDepth
    /\ last.levels = MaxDepth
    /\ ~last.result

(***************************************************************************)
(* The cell under re-entrant calls                                         *)
(***************************************************************************)
\* C21: in every reachable state of a cell, whatever calls, clearMemo calls
\* and throwing original methods came before, the calls made from inside a
\* running original method included, calledOnce = false implies that
\* cachedResult is undefined and, in the cell of a memoizedTTL method, that
\* computedAt is absent.
C21_NotRunMeansNoResult ==
    /\ ~Cell.calledOnce => Cell.cachedResult = Undefined
    /\ \A key \in TtlKeys :
           ~ttlCells[key].calledOnce
               => /\ ttlCells[key].cachedResult = Undefined
                  /\ ttlCells[key].computedAt = NoTime

\* Inside a running original method, after nested calls had stored a result
\* in each of the two cells, and after a call of shortCache had thrown, the
\* memoized method has been cleared and then shortCache has.
C21_Witness ==
    /\ frames # <<>>
    /\ prev.op = "clearMemo" /\ prev.key = "method1"
    /\ prev.before.calledOnce /\ prev.before.cachedResult # Undefined
    /\ last.op = "clearMemo" /\ last.key = "shortCache"
    /\ last.before.calledOnce /\ last.before.cachedResult # Undefined
    /\ last.before.computedAt # NoTime
    /\ ~Cell.calledOnce
    /\ ~ttlCells["shortCache"].calledOnce

\* The argument list of the call whose original method returned the value:
\* the value tells it.
ComputedFrom(result) == result.v[3]

\* C22: when no call is running and calledOnce is true, previousArgs has as
\* many elements as the call had arguments whose original method returned
\* cachedResult.
C22_StoredArityIsResultArity ==
    (frames = <<>> /\ Cell.calledOnce)
        => Len(Cell.previousArgs) = Len(ComputedFrom(Cell.cachedResult))

\* C24: a call that returns without running the original method returns a
\* value the original method returned for an argument list equal to the
\* current one, whatever came before: throwing original methods, clearMemo
\* calls, and calls or clearMemo calls made from inside a running original
\* method.
C24_HitReturnsValueOfEqualArgs ==
    (last.op = "invoke" /\ ~last.computed)
        => /\ last.result.t = "result"
           /\ ArgsEqual(last.args, ComputedFrom(last.result))

(***************************************************************************)
(* The registry                                                            *)
(***************************************************************************)
\* C23: the registry of an instance holds at most one entry per method name,
\* and once a method has been invoked on the instance the registry holds the
\* entry of that name, which clears the cell serving the method on that
\* instance.
C23_RegistryHoldsInvokedMethods ==
    \A o \in Owners, key \in Keys :
        /\ Cardinality({e \in memoizedClearFns[o].entries : e[1] = key}) <= 1
        /\ computeCount[o][key] > 0
               => <<key, ClosureOf(o)>> \in memoizedClearFns[o].entries

(***************************************************************************)
(* The single slot                                                         *)
(***************************************************************************)
\* C25: a miss replaces the one slot.  After a call with A and then a call
\* with another list B whose original method ran, the cell holds B's
\* arguments and B's result only; the next call is a miss if it is made with
\* A again and a hit if it is made with B again.
C25_MissReplacesTheSlot ==
    ( /\ prev.op = "invoke" /\ prev.computed /\ ~prev.threw
      /\ prev.before.calledOnce
      /\ prev.args # prev.before.previousArgs
      /\ last.op = "invoke" )
    => ( /\ last.before = [previousArgs |-> prev.args, calledOnce |-> TRUE,
                           cachedResult |-> prev.result]
         /\ last.args = prev.before.previousArgs => last.computed
         /\ last.args = prev.args => ~last.computed )

\* C26: a call whose number of arguments differs from the stored number runs
\* the original method, also when the shorter list is a prefix of the longer
\* one and the extra arguments are undefined.
C26_OtherArityMisses ==
    (last.op = "invoke" /\ Len(last.args) # Len(last.before.previousArgs))
        => last.computed

\* A call without arguments after a call with the one argument undefined.
C26_Witness ==
    /\ last.op = "invoke"
    /\ last.args = <<>>
    /\ last.before.calledOnce
    /\ last.before.previousArgs = <<Undefined>>
    /\ last.computed

\* C27: a hit depends on calledOnce, not on a result being stored.  When the
\* original method has returned undefined, the next call with equal
\* arguments returns undefined without running it, a call without arguments
\* after a call without arguments included.
C27_UndefinedResultIsCached ==
    ( /\ last.op = "invoke"
      /\ last.before.calledOnce
      /\ last.before.cachedResult = Undefined
      /\ ArgsEqual(last.args, last.before.previousArgs) )
    => (~last.computed /\ ~last.threw /\ last.result = Undefined)

\* A second call without arguments, the first having returned undefined.
C27_Witness ==
    /\ last.op = "invoke"
    /\ last.args = <<>>
    /\ last.before.calledOnce
    /\ last.before.previousArgs = <<>>
    /\ last.before.cachedResult = Undefined
    /\ ~last.computed
    /\ last.result = Undefined
    /\ computeCount["o1"]["method1"] = 1

(***************************************************************************)
(* One method among the others of its instance                             *)
(***************************************************************************)
\* A clearMemo of one method, or a call of it that runs the original method.
ClearsOrMisses(call) ==
    call.op = "clearMemo" \/ (call.op = "invoke" /\ call.computed)

\* The cells of the other memoized methods of the instance are as they were,
\* and each of them still answers the calls it answered from its slot.
OtherCellsUnchanged(o, key) ==
    \A other \in Keys \ {key} :
        /\ cells'[ClosureOf(o)][other] = cells[ClosureOf(o)][other]
        /\ \A args \in MethodArgs :
               isSame(cells[ClosureOf(o)][other], args).value
                   => isSame(cells'[ClosureOf(o)][other], args).value

\* C28 as stated: a clearMemo of one method, or a miss on it, leaves the
\* cells of the other memoized methods of the instance and the registry of
\* the instance unchanged.
C28_OthersAndRegistryUnchanged ==
    [][ ClearsOrMisses(last')
            => /\ OtherCellsUnchanged(last'.owner, last'.key)
               /\ memoizedClearFns'[last'.owner] = memoizedClearFns[last'.owner]
      ]_vars

\* C28: a clearMemo of one method, or a miss on it, leaves the cells of the
\* other memoized methods of the instance and their entries in the registry
\* of the instance unchanged, and no name leaves the registry; the first read
\* of the method itself writes the method's own entry.
C28_OthersAndTheirEntriesUnchanged ==
    [][ ClearsOrMisses(last')
            => /\ OtherCellsUnchanged(last'.owner, last'.key)
               /\ { e[1] : e \in memoizedClearFns[last'.owner].entries }
                      \subseteq { e[1] : e \in memoizedClearFns'[last'.owner].entries }
               /\ { e \in memoizedClearFns'[last'.owner].entries : e[1] # last'.key }
                      = { e \in memoizedClearFns[last'.owner].entries : e[1] # last'.key }
      ]_vars

\* The first call of method1 on an instance whose method2 holds a result and
\* is registered.
C28_Witness ==
    /\ decorators = "legacy"
    /\ last.op = "invoke" /\ last.computed
    /\ last.owner = "o1" /\ last.key = "method1"
    /\ computeCount["o1"]["method1"] = 1
    /\ cells[ClosureOf("o1")]["method2"].calledOnce
    /\ memoizedClearFns["o1"].entries = {<<"method1", "o1">>, <<"method2", "o1">>}

(***************************************************************************)
(* deepEqual and its depth                                                 *)
(***************************************************************************)
\* C29: for values without an equals method of their own, a comparison that
\* returns true with depth d returns true with depth d + 1: lowering the
\* depth never turns unequal into equal.
C29_MonotoneInDepth ==
    ( /\ last.op = "deepEqual"
      /\ ~IsKind(last.a, "Custom") /\ ~IsKind(last.b, "Custom")
      /\ last.result )
    => deepEqual(last.a, last.b, last.depth + 1)

\* obj1 and obj2 of the tests compared with depth 3, the least depth that
\* reaches their arrays.
C29_Witness ==
    /\ last.op = "deepEqual"
    /\ last.a = Obj1 /\ last.b = Obj2
    /\ last.depth = 3
    /\ last.result
    /\ ~deepEqual(last.a, last.b, 2)

\* An array whose elements are all scalars, null or undefined.
AllScalars(a) ==
    IsKind(a, "Array") /\ \A i \in 1..Len(Obj(a).vals) : Obj(a).vals[i].t # "ref"

\* deepEqual(a[i], b[i], depth) for every index of a.
ElementWise(a, b, depth) ==
    \A i \in 1..Len(Obj(a).vals) : deepEqual(Obj(a).vals[i], Obj(b).vals[i], depth)

\* Two arrays of scalars have been compared.
ScalarArraysCompared ==
    /\ last.op = "deepEqual"
    /\ last.a # last.b
    /\ AllScalars(last.a) /\ AllScalars(last.b)

\* C30 as stated: two arrays of scalars of the same length compare, for
\* every depth >= 1, as the element-wise deepEqual(a[i], b[i], depth - 1)
\* would; arrays of different lengths are unequal.
C30_FastPathIsElementWise ==
    ScalarArraysCompared =>
        IF Len(Obj(last.a).vals) = Len(Obj(last.b).vals)
        THEN last.depth >= 1
                 => (last.result <=> ElementWise(last.a, last.b, last.depth - 1))
        ELSE ~last.result

\* C30: two arrays of scalars of the same length compare, for every
\* depth >= 1, as a[i] === b[i] for every index, which for every depth >= 2
\* is what the element-wise deepEqual(a[i], b[i], depth - 1) returns; arrays
\* of different lengths are unequal.
C30_FastPathIsStrictEquality ==
    ScalarArraysCompared =>
        IF Len(Obj(last.a).vals) = Len(Obj(last.b).vals)
        THEN /\ last.depth >= 1
                 => (last.result <=>
                         \A i \in 1..Len(Obj(last.a).vals) :
                             StrictEquals(Obj(last.a).vals[i], Obj(last.b).vals[i]))
             /\ last.depth >= 2
                 => (last.result <=> ElementWise(last.a, last.b, last.depth - 1))
        ELSE ~last.result

\* [1, 2, 3] and another [1, 2, 3] compared with depth 1: equal, where the
\* elements compared with depth 0 would not be.
C30_Witness ==
    /\ last.op = "deepEqual"
    /\ last.a = Ref(1) /\ last.b = Ref(4)
    /\ last.depth = 1
    /\ last.result
    /\ ~ElementWise(last.a, last.b, 0)

=============================================================================
